---- MODULE Spec2Model ----
(***************************************************************************)
(* Model of simple-http-server: the "/" handler of main.go and the request *)
(* decoding / presentation pipeline of request.go.                         *)
(*                                                                         *)
(* Go strings and byte slices are sequences of one-character strings, so   *)
(* prefix, substring, parsing and formatting are computed, not assumed.    *)
(* An error value is a sequence of message parts (<<>> is the nil error;   *)
(* fmt.Errorf("msg: %v", err) prepends a part).                            *)
(***************************************************************************)
EXTENDS Integers, Sequences, FiniteSets, TLC

VARIABLES
    req,          \* the inbound *http.Request (headers, URL, body stream)
    Cfg,          \* the global *Config (main.go:15)
    pc,           \* "received" | "done" | "classify" | "classified"
    snapshot,     \* the *Request returned by NewRequest
    statusCalls,  \* every status passed to w.WriteHeader, in call order
    printed,      \* one entry per Request.Print call: its stdout lines
    logged,       \* lines written through the log package
    textLike      \* result of the last isStringContentType call

vars == <<req, Cfg, pc, snapshot, statusCalls, printed, logged, textLike>>

\* ---------------------------------------------------------------- bounds
MaxCtFrags == 2    \* content types are built from at most this many fragments
MaxBodyLen == 3    \* request bodies have at most this many bytes
MaxPrints == 2     \* Print calls observed on one snapshot

\* ------------------------------------------------------- string literals
S_text == <<"t","e","x","t","/">>
S_json == <<"j","s","o","n">>
S_xml == <<"x","m","l">>
S_plain == <<"p","l","a","i","n">>
S_app == <<"a","p","p","l","i","c","a","t","i","o","n","/">>
S_octet == <<"o","c","t","e","t","-","s","t","r","e","a","m">>
S_boundary == <<";"," ","b","o","u","n","d","a","r","y","=","b">>
S_boundaryParam == <<"b","o","u","n","d","a","r","y","=">>
S_ContentType == <<"C","o","n","t","e","n","t","-","T","y","p","e">>
S_Authorization == <<"A","u","t","h","o","r","i","z","a","t","i","o","n">>
S_GET == <<"G","E","T">>
S_POST == <<"P","O","S","T">>
S_PUT == <<"P","U","T">>
S_PATCH == <<"P","A","T","C","H">>

\* mimetype.ApplicationXWwwFormUrlencoded
ApplicationXWwwFormUrlencoded ==
    S_app \o <<"x","-","w","w","w","-","f","o","r","m","-",
               "u","r","l","e","n","c","o","d","e","d">>

\* mimetype.MultipartFormData
MultipartFormData ==
    <<"m","u","l","t","i","p","a","r","t","/","f","o","r","m","-","d","a","t","a">>

\* ------------------------------------------------------ package strings
\* strings.HasPrefix(s, prefix)
HasPrefix(s, prefix) ==
    /\ Len(prefix) <= Len(s)
    /\ SubSeq(s, 1, Len(prefix)) = prefix

\* strings.Contains(s, substr)
Contains(s, substr) ==
    \E i \in 1..(Len(s) - Len(substr) + 1) :
        SubSeq(s, i, i + Len(substr) - 1) = substr

\* ------------------------------------------------------ ContentClassifier
\* a plausible slip: "text/" looked for anywhere instead of as a prefix
isStringContentType_NoAnchor(contentType) ==
    IF Contains(contentType, S_text) THEN TRUE
    ELSE IF Contains(contentType, S_json) THEN TRUE
    ELSE IF Contains(contentType, S_xml) THEN TRUE
    ELSE IF contentType = ApplicationXWwwFormUrlencoded THEN TRUE
    ELSE FALSE

isStringContentType(contentType) ==
    IF HasPrefix(contentType, S_text) THEN TRUE
    ELSE IF Contains(contentType, S_json) THEN TRUE
    ELSE IF Contains(contentType, S_xml) THEN TRUE
    ELSE IF contentType = ApplicationXWwwFormUrlencoded THEN TRUE
    ELSE FALSE

\* ------------------------------------------------------------- values
NoError == <<>>
Errorf(msg, err) == <<msg>> \o err

\* a Go map[string][]string: isNil distinguishes the nil map from an empty one
NilMap == [isNil |-> TRUE, m |-> <<>>]
MakeMap(f) == [isNil |-> FALSE, m |-> f]
EmptyMap == MakeMap(<<>>)

\* m[key] = append(m[key], value)
MapAppend(f, key, value) ==
    [k \in (DOMAIN f) \cup {key} |->
        IF k = key
        THEN (IF key \in DOMAIN f THEN Append(f[key], value) ELSE <<value>>)
        ELSE f[k]]

\* copyValues of net/http: dst[k] = append(dst[k], vs...) for every k of src
CopyValues(dst, src) ==
    [k \in (DOMAIN dst) \cup (DOMAIN src) |->
        (IF k \in DOMAIN dst THEN dst[k] ELSE <<>>) \o
        (IF k \in DOMAIN src THEN src[k] ELSE <<>>)]

\* a Go []byte: isNil distinguishes the nil slice from an empty one
NilBytes == [isNil |-> TRUE, bytes |-> <<>>]
Bytes(b) == [isNil |-> FALSE, bytes |-> b]

\* all orders in which `range` may visit the keys of a map
Perms(S) ==
    {p \in [1..Cardinality(S) -> S] : \A i, j \in 1..Cardinality(S) : p[i] = p[j] => i = j}

\* ------------------------------------------------------- strconv / fmt
DigitChars == <<"0","1","2","3","4","5","6","7","8","9">>

RECURSIVE Itoa(_)
\* %d of a non-negative integer
Itoa(n) == IF n < 10 THEN <<DigitChars[n + 1]>>
           ELSE Itoa(n \div 10) \o <<DigitChars[(n % 10) + 1]>>

BytesPerMB == 1048576

\* %.2f of float64(size)/1024/1024
FormatMB(size) ==
    LET h == (size * 100 + (BytesPerMB \div 2)) \div BytesPerMB
    IN Itoa(h \div 100) \o <<".">> \o <<DigitChars[((h \div 10) % 10) + 1]>>
                        \o <<DigitChars[(h % 10) + 1]>>

\* one written line: the format string and its operands
Line(f, a) == [fmt |-> f, args |-> a]

\* ------------------------------------------------ request body stream
\* r.Body of a server request.  noBody is http.NoBody (a request without a
\* body: every Read is EOF, Close does nothing).  fails: the connection
\* breaks while the body is read.  drained: the bytes were already consumed.
Stream(d, f) == [data |-> d, fails |-> f, noBody |-> FALSE,
                 closed |-> FALSE, drained |-> FALSE]
NoBody == [data |-> <<>>, fails |-> FALSE, noBody |-> TRUE,
           closed |-> FALSE, drained |-> FALSE]

\* io.ReadAll(body): the rest of the stream, or the read error
ioReadAll(s) ==
    IF s.noBody THEN [b |-> <<>>, err |-> NoError, stream |-> s]
    ELSE IF s.closed
    THEN [b |-> <<>>, err |-> <<"http: invalid Read on closed Body">>, stream |-> s]
    ELSE IF s.fails
    THEN [b |-> <<>>, err |-> <<"unexpected EOF">>, stream |-> s]
    ELSE [b |-> (IF s.drained THEN <<>> ELSE s.data), err |-> NoError,
          stream |-> [s EXCEPT !.drained = TRUE]]

\* Body.Close()
Close(s) == IF s.noBody THEN s ELSE [s EXCEPT !.closed = TRUE]

readBodyAsBytes(body) ==
    LET rd == ioReadAll(body)
    IN IF rd.err # NoError
       THEN [b |-> NilBytes,
             err |-> Errorf("error reading request body", rd.err),
             stream |-> rd.stream]
       ELSE [b |-> Bytes(rd.b), err |-> NoError, stream |-> Close(rd.stream)]

\* ------------------------------------------------------------ net/url
\* index of the first occurrence of character c in s, 0 if none
IndexOf(s, c) ==
    IF \E i \in 1..Len(s) : s[i] = c
    THEN CHOOSE i \in 1..Len(s) : s[i] = c /\ \A j \in 1..(i - 1) : s[j] # c
    ELSE 0

\* strings.Cut(s, c)
CutBefore(s, c) == IF IndexOf(s, c) = 0 THEN s ELSE SubSeq(s, 1, IndexOf(s, c) - 1)
CutAfter(s, c) == IF IndexOf(s, c) = 0 THEN <<>> ELSE SubSeq(s, IndexOf(s, c) + 1, Len(s))

\* url.QueryUnescape on strings without % escapes: "+" decodes to a space
QueryUnescape(s) == [i \in 1..Len(s) |-> IF s[i] = "+" THEN " " ELSE s[i]]

RECURSIVE parseQuery(_, _, _)
\* url.parseQuery: split on "&", reject ";", split each pair on its first "="
parseQuery(m, query, err) ==
    IF query = <<>> THEN [values |-> m, err |-> err]
    ELSE LET pair == CutBefore(query, "&")
             rest == CutAfter(query, "&")
         IN IF Contains(pair, <<";">>)
            THEN parseQuery(m, rest, <<"invalid semicolon separator in query">>)
            ELSE IF pair = <<>>
            THEN parseQuery(m, rest, err)
            ELSE parseQuery(MapAppend(m, QueryUnescape(CutBefore(pair, "=")),
                                         QueryUnescape(CutAfter(pair, "="))),
                            rest, err)

\* url.ParseQuery(query)
ParseQuery(query) == parseQuery(<<>>, query, NoError)

\* ------------------------------------------------------- encoding/json
\* The scanner of encoding/json on the bytes the model draws bodies from:
\* integers and arrays.  Any other byte starts no value and is rejected, as
\* the scanner rejects it ("=", "&", a stray "]" or ",").
IsDigit(c) == \E i \in 1..10 : DigitChars[i] = c

RECURSIVE scanDigits(_, _)
\* index after the run of digits starting at i
scanDigits(s, i) == IF i <= Len(s) /\ IsDigit(s[i]) THEN scanDigits(s, i + 1) ELSE i

RECURSIVE scanValue(_, _)
RECURSIVE scanElems(_, _)
\* index after the JSON value starting at i, 0 if there is none
scanValue(s, i) ==
    IF i > Len(s) THEN 0
    ELSE IF s[i] = "0" THEN i + 1
    ELSE IF IsDigit(s[i]) THEN scanDigits(s, i)
    ELSE IF s[i] = "["
         THEN (IF i + 1 <= Len(s) /\ s[i + 1] = "]" THEN i + 2 ELSE scanElems(s, i + 1))
    ELSE 0

\* index after the "]" closing the array whose next element starts at i
scanElems(s, i) ==
    LET j == scanValue(s, i)
    IN IF j = 0 \/ j > Len(s) THEN 0
       ELSE IF s[j] = "]" THEN j + 1
       ELSE IF s[j] = "," THEN scanElems(s, j + 1)
       ELSE 0

\* json.Valid(data)
jsonValid(data) == scanValue(data, 1) = Len(data) + 1

RECURSIVE Spaces(_)
Spaces(n) == IF n <= 0 THEN <<>> ELSE <<" ", " ">> \o Spaces(n - 1)

\* appendNewline(dst, prefix = "", indent = "  ", depth)
appendNewline(dst, depth) == dst \o <<"\n">> \o Spaces(depth)

RECURSIVE appendIndent(_, _, _, _, _)
\* the loop of json.Indent over src[i..]: a newline and one more level after
\* "[" unless the array is empty, a newline after ",", a newline and one
\* level less before "]"
appendIndent(src, i, depth, needIndent, dst) ==
    IF i > Len(src) THEN dst
    ELSE LET c == src[i]
             open == needIndent /\ c # "]"
             d1 == IF open THEN depth + 1 ELSE depth
             dst1 == IF open THEN appendNewline(dst, d1) ELSE dst
             need1 == IF open THEN FALSE ELSE needIndent
         IN IF c = "["
            THEN appendIndent(src, i + 1, d1, TRUE, Append(dst1, c))
            ELSE IF c = ","
            THEN appendIndent(src, i + 1, d1, need1, appendNewline(Append(dst1, c), d1))
            ELSE IF c = "]"
            THEN (IF need1
                  THEN appendIndent(src, i + 1, d1, FALSE, Append(dst1, c))
                  ELSE appendIndent(src, i + 1, d1 - 1, need1,
                                    Append(appendNewline(dst1, d1 - 1), c)))
            ELSE appendIndent(src, i + 1, d1, need1, Append(dst1, c))

\* json.Indent(&dst, b, "", "  ")
jsonIndent(b) == appendIndent(b, 1, 0, FALSE, <<>>)

\* ------------------------------------------------------- mime/multipart
\* A *multipart.Form: field values, and per field name its file parts.
NilForm == [isNil |-> TRUE, Value |-> <<>>, File |-> <<>>]

S_name == <<"n","a","m","e">>
S_foo == <<"f","o","o">>
S_upload == <<"u","p","l","o","a","d">>
S_fbin == <<"f",".","b","i","n">>
S_ContentDisposition ==
    <<"C","o","n","t","e","n","t","-","D","i","s","p","o","s","i","t","i","o","n">>
S_formdata == <<"f","o","r","m","-","d","a","t","a">>

\* One well-formed multipart/form-data body for boundary "b", as its
\* delimiter lines, part headers and part contents: a field name=foo and a
\* file part upload (f.bin, 3 bytes).
SampleMultipartBody ==
    <<"--b", "Content-Disposition: form-data; name=name", "", "foo",
      "--b", "Content-Disposition: form-data; name=upload; filename=f.bin", "",
      "a", "b", "c", "--b--">>

\* what multipart.Reader.ReadForm decodes from SampleMultipartBody
SampleForm ==
    [isNil |-> FALSE,
     Value |-> (S_name :> <<S_foo>>),
     File |-> (S_upload :> <<[Filename |-> S_fbin, Size |-> 3,
                             Header |-> (S_ContentDisposition :> <<S_formdata>>)]>>)]

\* multipart.Reader.ReadForm over the bytes of the body: every body the
\* model draws other than SampleMultipartBody holds no "--b" delimiter line,
\* for which NextPart fails.
ReadForm(data) ==
    IF data = SampleMultipartBody
    THEN [form |-> SampleForm, err |-> NoError]
    ELSE [form |-> NilForm, err |-> <<"multipart: NextPart: EOF">>]

\* ------------------------------------------------------------- net/http
\* Header.Get(key): the first value of the header, "" when absent
HeaderGet(h, key) == IF key \in DOMAIN h /\ Len(h[key]) > 0 THEN h[key][1] ELSE <<>>

\* the media type of a Content-Type value (mime.ParseMediaType): the part
\* before the first ";"
MediaType(v) == CutBefore(v, ";")

\* parsePostForm(r): the form a POST/PUT/PATCH body holds
parsePostForm(r) ==
    IF MediaType(HeaderGet(r.Header, S_ContentType)) = ApplicationXWwwFormUrlencoded
    THEN LET parsed(rd) ==
                 IF rd.err # NoError
                 THEN [vs |-> NilMap, err |-> rd.err, stream |-> rd.stream]
                 ELSE [vs |-> MakeMap(ParseQuery(rd.b).values),
                       err |-> ParseQuery(rd.b).err, stream |-> rd.stream]
         IN parsed(ioReadAll(r.Body))
    ELSE [vs |-> NilMap, err |-> NoError, stream |-> r.Body]

\* (*http.Request).ParseForm: r.PostForm from the body (POST, PUT, PATCH
\* only), r.Form from r.PostForm and the URL query; the first error met
ParseForm(r) ==
    LET readsBody == r.PostForm.isNil /\ r.Method \in {S_POST, S_PUT, S_PATCH}
        postForm(pp) == IF pp.vs.isNil THEN EmptyMap ELSE pp.vs
        result(pp, q) ==
            [r |-> [r EXCEPT !.PostForm = postForm(pp),
                             !.Form = IF ~r.Form.isNil THEN r.Form
                                      ELSE MakeMap(CopyValues(postForm(pp).m, q.values)),
                             !.Body = pp.stream],
             err |-> IF pp.err # NoError \/ ~r.Form.isNil THEN pp.err ELSE q.err]
    IN result(IF readsBody THEN parsePostForm(r)
              ELSE [vs |-> r.PostForm, err |-> NoError, stream |-> r.Body],
              ParseQuery(r.URL.RawQuery))

\* (*http.Request).ParseMultipartForm: ParseForm first, then the multipart
\* reader, which needs the boundary parameter of the Content-Type header.
\* The maxMemory argument (Cfg.MaxFormBodySizeInMB << 20) only decides whether
\* a part is kept in memory or in a temporary file, not what is decoded.
ParseMultipartForm(r) ==
    LET v == HeaderGet(r.Header, S_ContentType)
        readForm(pf, rd, f) ==
            IF rd.err # NoError
            THEN [r |-> [pf.r EXCEPT !.Body = rd.stream], err |-> rd.err]
            ELSE IF f.err # NoError
            THEN [r |-> [pf.r EXCEPT !.Body = rd.stream], err |-> f.err]
            ELSE [r |-> [pf.r EXCEPT !.Body = rd.stream,
                                     !.MultipartForm = f.form,
                                     !.Form = MakeMap(CopyValues(pf.r.Form.m, f.form.Value)),
                                     !.PostForm = MakeMap(CopyValues(pf.r.PostForm.m,
                                                                     f.form.Value))],
                  err |-> pf.err]
        result(pf) ==
            IF ~r.MultipartForm.isNil THEN [r |-> pf.r, err |-> NoError]
            ELSE IF v = <<>> \/ MediaType(v) # MultipartFormData
            THEN [r |-> pf.r, err |-> <<"request Content-Type isn't multipart/form-data">>]
            ELSE IF ~Contains(v, S_boundaryParam)
            THEN [r |-> pf.r, err |-> <<"no multipart boundary param in Content-Type">>]
            ELSE readForm(pf, ioReadAll(pf.r.Body), ReadForm(ioReadAll(pf.r.Body).b))
    IN result(IF r.Form.isNil THEN ParseForm(r) ELSE [r |-> r, err |-> NoError])

\* ------------------------------------------------------------ request.go
\* the body decoding of NewRequest: the text-like read, then the switch on
\* the exact Content-Type value
decodeBody(r) ==
    LET contentType == HeaderGet(r.Header, S_ContentType)
        formCase(rd, pf) ==
            [r |-> pf.r, body |-> rd.b,
             bodyParseError |-> IF pf.err = NoError THEN NoError
                                ELSE Errorf("error parsing form values", pf.err),
             bodyFormValues |-> IF pf.err = NoError THEN pf.r.Form ELSE NilMap]
        multipartCase(rd, pm) ==
            [r |-> pm.r, body |-> rd.b,
             bodyParseError |-> IF pm.err = NoError THEN NoError
                                ELSE Errorf("error parsing multipart form values", pm.err),
             bodyFormValues |-> NilMap]
        switch(rd) ==
            IF contentType = ApplicationXWwwFormUrlencoded
            THEN formCase(rd, ParseForm([r EXCEPT !.Body = rd.stream]))
            ELSE IF contentType = MultipartFormData
            THEN multipartCase(rd, ParseMultipartForm([r EXCEPT !.Body = rd.stream]))
            ELSE [r |-> [r EXCEPT !.Body = rd.stream], body |-> rd.b,
                  bodyParseError |-> rd.err, bodyFormValues |-> NilMap]
    IN switch(IF isStringContentType(contentType)
              THEN readBodyAsBytes(r.Body)
              ELSE [b |-> NilBytes, err |-> NoError, stream |-> r.Body])

\* the snapshot NewRequest assembles from the request and the decoded body
newSnapshot(r, d) ==
    [Method |-> IF r.Method = <<>> THEN S_GET ELSE r.Method,
     Path |-> r.URL.Path,
     RequestUri |-> r.RequestURI,
     Protocol |-> r.Proto,
     Host |-> r.Host,
     RemoteAddress |-> r.RemoteAddr,
     ContentLength |-> r.ContentLength,
     ContentType |-> HeaderGet(r.Header, S_ContentType),
     Headers |-> r.Header,
     QueryParams |-> ParseQuery(r.URL.RawQuery).values,
     BasicAuth |-> r.BasicAuth,
     BodyIsString |-> isStringContentType(HeaderGet(r.Header, S_ContentType)),
     BodyParseError |-> d.bodyParseError,
     Body |-> d.body,
     BodyFormValues |-> d.bodyFormValues,
     BodyMultipartFormValues |-> d.r.MultipartForm]

\* a plausible slip: the decode error is returned to the handler
NewRequest_ReturnsParseError(r) ==
    LET result(d) == [r |-> d.r, req |-> newSnapshot(r, d), reqIsNil |-> FALSE,
                      err |-> d.bodyParseError]
    IN result(decodeBody(r))

\* NewRequest(r): (*Request, error); r is the request as the call leaves it
NewRequest(r) ==
    LET result(d) == [r |-> d.r, req |-> newSnapshot(r, d), reqIsNil |-> FALSE,
                      err |-> NoError]
    IN result(decodeBody(r))

\* --------------------------------------------------------------- printing
S_type == <<"t","y","p","e">>
S_username == <<"u","s","e","r","n","a","m","e">>
S_password == <<"p","a","s","s","w","o","r","d">>
S_Basic == <<"B","a","s","i","c">>

RECURSIVE printValues(_, _, _)
\* the inner loop of printStrSliceMap: one line per value of key
printValues(key, values, i) ==
    IF i > Len(values) THEN <<>>
    ELSE <<Line("\t%s: %s\n", <<key, values[i]>>)>> \o printValues(key, values, i + 1)

RECURSIVE printStrSliceMapFrom(_, _, _)
printStrSliceMapFrom(m, order, i) ==
    IF i > Len(order) THEN <<>>
    ELSE printValues(order[i], m[order[i]], 1) \o printStrSliceMapFrom(m, order, i + 1)

\* printStrSliceMap(m), the keys visited in `order`
printStrSliceMap(m, order) == printStrSliceMapFrom(m, order, 1)

\* printStrMap(m), the keys visited in `order`
printStrMap(m, order) ==
    [i \in 1..Len(order) |-> Line("\t%s: %s\n", <<order[i], m[order[i]]>>)]

\* printBytes(bytes)
printBytes(bytes) == <<Line("%s\n", <<bytes>>)>>

\* printJsonIndented(b): the lines written and the error returned
printJsonIndented(b) ==
    IF ~jsonValid(b) THEN [out |-> <<>>, err |-> <<"invalid json">>]
    ELSE [out |-> <<Line("%s\n", <<jsonIndent(b)>>)>>, err |-> NoError]

\* the map the authorization block prints
authMap(r) ==
    (S_type :> S_Basic) @@ (S_username :> r.BasicAuth.username)
                        @@ (S_password :> r.BasicAuth.password)

\* (*Request).printAuth
printAuth(r, order) ==
    IF r.BasicAuth.ok
    THEN <<Line("Authorization:\n", <<>>)>> \o printStrMap(authMap(r), order)
    ELSE <<>>

\* (*Request).printHeaders
printHeaders(r, order) ==
    IF Cardinality(DOMAIN r.Headers) > 0
    THEN <<Line("Headers:\n", <<>>)>> \o printStrSliceMap(r.Headers, order)
    ELSE <<>>

\* (*Request).printQueryParams
printQueryParams(r, order) ==
    IF Cardinality(DOMAIN r.QueryParams) > 0
    THEN <<Line("Query params:\n", <<>>)>> \o printStrSliceMap(r.QueryParams, order)
    ELSE <<>>

RECURSIVE JoinSpace(_, _)
JoinSpace(vs, i) ==
    IF i > Len(vs) THEN <<>>
    ELSE (IF i > 1 THEN <<" ">> ELSE <<>>) \o vs[i] \o JoinSpace(vs, i + 1)

\* %s of a []string
FormatSlice(vs) == <<"[">> \o JoinSpace(vs, 1) \o <<"]">>

RECURSIVE printFileParts(_, _, _)
\* the loop over the file parts of one field name (printBody)
printFileParts(values, horder, i) ==
    IF i > Len(values) THEN <<>>
    ELSE LET value == values[i]
             hs == SelectSeq(horder, LAMBDA k : k \in DOMAIN value.Header)
         IN <<Line("\t\t%s (%.2f MB)\n", <<value.Filename, FormatMB(value.Size)>>)>>
            \o (IF Cardinality(DOMAIN value.Header) # 0
                THEN <<Line("\t\tHeaders:\n", <<>>)>> \o
                     [j \in 1..Len(hs) |->
                        Line("\t\t\t%s\n", <<FormatSlice(value.Header[hs[j]])>>)]
                ELSE <<>>)
            \o printFileParts(values, horder, i + 1)

RECURSIVE printFiles(_, _, _, _)
\* the loop over BodyMultipartFormValues.File (printBody)
printFiles(files, order, horder, i) ==
    IF i > Len(order) THEN <<>>
    ELSE <<Line("\t%s:\n", <<order[i]>>)>>
         \o printFileParts(files[order[i]], horder, 1)
         \o printFiles(files, order, horder, i + 1)

\* a plausible slip: the validity test is inverted
printJsonBody_Inverted(r, cfg) ==
    IF ~jsonValid(r.Body.bytes)
    THEN [out |-> <<Line("Body (valid json):\n", <<>>)>>
                  \o (IF cfg.ShouldFormatJson THEN printBytes(r.Body.bytes) ELSE <<>>),
          log |-> <<>>]
    ELSE [out |-> <<Line("Body (invalid json):\n", <<>>)>> \o printBytes(r.Body.bytes),
          log |-> <<>>]

\* a plausible slip: a valid JSON body is printed raw when formatting is off
printJsonBody_RawWhenNotFormatting(r, cfg) ==
    IF jsonValid(r.Body.bytes)
    THEN [out |-> <<Line("Body (valid json):\n", <<>>)>>
                  \o (IF cfg.ShouldFormatJson THEN printJsonIndented(r.Body.bytes).out
                      ELSE printBytes(r.Body.bytes)),
          log |-> <<>>]
    ELSE [out |-> <<Line("Body (invalid json):\n", <<>>)>> \o printBytes(r.Body.bytes),
          log |-> <<>>]

\* the JSON branch of printBody: the lines written to stdout and to the log
printJsonBody(r, cfg) ==
    IF jsonValid(r.Body.bytes)
    THEN (IF cfg.ShouldFormatJson
          THEN LET pj == printJsonIndented(r.Body.bytes)
               IN IF pj.err # NoError
                  THEN [out |-> <<Line("Body (valid json):\n", <<>>)>>
                                \o printBytes(r.Body.bytes),
                        log |-> <<Line("error indenting json body: %v\n", <<pj.err>>)>>]
                  ELSE [out |-> <<Line("Body (valid json):\n", <<>>)>> \o pj.out,
                        log |-> <<>>]
          ELSE [out |-> <<Line("Body (valid json):\n", <<>>)>>, log |-> <<>>])
    ELSE [out |-> <<Line("Body (invalid json):\n", <<>>)>> \o printBytes(r.Body.bytes),
          log |-> <<>>]

\* (*Request).printBody: the lines written to stdout and to the log
printBody(r, cfg, ord) ==
    IF Len(r.Body.bytes) = 0 THEN [out |-> <<>>, log |-> <<>>]
    ELSE IF r.BodyIsString
    THEN (IF Contains(r.ContentType, S_json)
          THEN printJsonBody(r, cfg)
          ELSE [out |-> <<Line("Body:\n", <<>>)>> \o printBytes(r.Body.bytes),
                log |-> <<>>])
    ELSE IF ~r.BodyFormValues.isNil
    THEN [out |-> <<Line("Body (Form values):\n", <<>>)>>
                  \o printStrSliceMap(r.BodyFormValues.m, ord.form),
          log |-> <<>>]
    ELSE IF ~r.BodyMultipartFormValues.isNil
    THEN [out |-> <<Line("Body (Multipart form values):\n", <<>>)>>
                  \o printStrSliceMap(r.BodyMultipartFormValues.Value, ord.mvalue)
                  \o printFiles(r.BodyMultipartFormValues.File, ord.mfile, ord.mheader, 1),
          log |-> <<>>]
    ELSE [out |-> <<Line("Body (unknown): lenght %d bytes\n", <<Itoa(Len(r.Body.bytes))>>)>>,
          log |-> <<>>]

\* the delimiter constant of (*Request).Print
delimiter == <<Line("-------------------------\n", <<>>)>>

\* (*Request).Print: the lines written to stdout and to the log (the log
\* package's timestamp prefix is left out)
RequestPrint(r, cfg, ord) ==
    LET report(pb) ==
       [log |-> <<Line("%s %s %s\n", <<r.Method, r.Path, r.Protocol>>)>> \o pb.log,
        out |-> (IF r.Path # r.RequestUri
                 THEN <<Line("Request URI: %s\n", <<r.RequestUri>>)>> ELSE <<>>)
                \o <<Line("Host: %s\n", <<r.Host>>),
                     Line("Remote Address: %s\n", <<r.RemoteAddress>>)>>
                \o printAuth(r, ord.auth)
                \o printHeaders(r, ord.headers)
                \o printQueryParams(r, ord.query)
                \o pb.out
                \o delimiter]
    IN report(printBody(r, cfg, ord))

\* the union of the header names of all file parts of a multipart form
FileHeaderKeys(f) ==
    UNION {UNION {DOMAIN (f.File[k][i]).Header : i \in 1..Len(f.File[k])} : k \in DOMAIN f.File}

\* every way the `range` loops of one Print call may order the keys of the
\* maps they visit (Go leaves map iteration order unspecified)
RangeOrders(r) ==
    [auth : IF r.BasicAuth.ok THEN Perms({S_type, S_username, S_password}) ELSE {<<>>},
     headers : Perms(DOMAIN r.Headers),
     query : Perms(DOMAIN r.QueryParams),
     form : Perms(DOMAIN r.BodyFormValues.m),
     mvalue : Perms(DOMAIN r.BodyMultipartFormValues.Value),
     mfile : Perms(DOMAIN r.BodyMultipartFormValues.File),
     mheader : Perms(FileHeaderKeys(r.BodyMultipartFormValues))]

\* ---------------------------------------------------------------- main.go
StatusInternalServerError == 500
StatusAccepted == 202

\* the handler registered for "/" by runHttpServer, for the request in
\* flight: NewRequest, the report, then the response status
Handle ==
    /\ pc = "received"
    /\ \E res \in {NewRequest(req)} : \E ord \in RangeOrders(res.req) :
         \E p \in {RequestPrint(res.req, Cfg, ord)} :
               /\ req' = res.r
               /\ snapshot' = res.req
               /\ statusCalls' = statusCalls
                      \o (IF res.err # NoError THEN <<StatusInternalServerError>> ELSE <<>>)
                      \o <<StatusAccepted>>
               /\ logged' = logged
                      \o (IF res.err # NoError THEN <<Line("%v\n", <<res.err>>)>> ELSE <<>>)
                      \o (IF ~res.reqIsNil THEN p.log ELSE <<>>)
               /\ printed' = IF ~res.reqIsNil THEN Append(printed, p.out) ELSE printed
    /\ pc' = "done"
    /\ UNCHANGED <<Cfg, textLike>>

\* one more call of (*Request).Print on the snapshot the handler built
PrintAgain ==
    /\ pc = "done"
    /\ Len(printed) < MaxPrints
    /\ \E ord \in RangeOrders(snapshot) :
         \E p \in {RequestPrint(snapshot, Cfg, ord)} :
            /\ printed' = Append(printed, p.out)
            /\ logged' = logged \o p.log
    /\ UNCHANGED <<req, Cfg, pc, snapshot, statusCalls, textLike>>

\* one call of isStringContentType on the request's Content-Type value
Classify ==
    /\ pc = "classify"
    /\ textLike' = isStringContentType(HeaderGet(req.Header, S_ContentType))
    /\ pc' = "classified"
    /\ UNCHANGED <<req, Cfg, snapshot, statusCalls, printed, logged>>

\* ------------------------------------------------------------ the inputs
S_path == <<"/","p">>
S_proto == <<"H","T","T","P","/","1",".","1">>
S_host == <<"h",":","3","0","0","0">>
S_remote == <<"c",":","9">>
S_user == <<"u">>
S_pass == <<"p">>
S_XA == <<"X","-","A">>
S_XB == <<"X","-","B">>

NoAuth == [username |-> <<>>, password |-> <<>>, ok |-> FALSE]
SomeAuth == [username |-> S_user, password |-> S_pass, ok |-> TRUE]

\* the *http.Request the server hands to the handler
MkRequest(method, ct, rawQuery, stream, extra, auth) ==
    [Method |-> method,
     URL |-> [Path |-> S_path, RawQuery |-> rawQuery],
     RequestURI |-> S_path \o (IF rawQuery # <<>> THEN <<"?">> \o rawQuery ELSE <<>>),
     Proto |-> S_proto,
     Host |-> S_host,
     RemoteAddr |-> S_remote,
     ContentLength |-> Len(stream.data),
     Header |-> (IF ct # <<>> THEN (S_ContentType :> <<ct>>) ELSE <<>>)
                @@ (IF auth.ok THEN (S_Authorization :> <<S_Basic>>) ELSE <<>>)
                @@ extra,
     BasicAuth |-> auth,
     Body |-> stream,
     Form |-> NilMap,
     PostForm |-> NilMap,
     MultipartForm |-> NilForm]

\* the configuration NewConfig builds (the port and help flag play no part)
Configs == [ShouldFormatJson : BOOLEAN, MaxFormBodySizeInMB : {10}]

BodyAlphabet == {"1", "[", "]", "=", "&"}

Bodies ==
    UNION {[1..n -> BodyAlphabet] : n \in 0..MaxBodyLen} \cup {SampleMultipartBody}

BodyStreams ==
    {Stream(d, f) : d \in Bodies, f \in BOOLEAN} \cup {NoBody}

RawQueries == {<<>>, <<"1","=","1","&","1","=","+">>, <<";">>}

ReqContentTypes ==
    {<<>>, S_text \o S_plain, S_app \o S_json, S_app \o S_octet,
     ApplicationXWwwFormUrlencoded, MultipartFormData,
     MultipartFormData \o S_boundary}

Requests ==
    {MkRequest(m, ct, q, b, <<>>, NoAuth) :
        m \in {S_GET, S_POST}, ct \in ReqContentTypes, q \in RawQueries,
        b \in BodyStreams}

CtFrags ==
    {S_text, S_json, S_xml, S_app, S_plain, S_octet, S_boundary,
     ApplicationXWwwFormUrlencoded, MultipartFormData}

RECURSIVE Concats(_)
Concats(n) ==
    IF n = 0 THEN {<<>>}
    ELSE Concats(n - 1) \cup {a \o f : a \in Concats(n - 1), f \in CtFrags}

ContentTypes == Concats(MaxCtFrags)

\* requests with several header names, several query parameters, or
\* Basic credentials
PrintRequests ==
    {MkRequest(S_GET, ct, q, b, x, a) :
        ct \in {<<>>, S_text \o S_plain},
        q \in {<<>>},
        b \in {NoBody, Stream(<<"1">>, FALSE)},
        x \in {<<>>, (S_XA :> <<<<"1">>, <<"2">>>>)}, a \in {NoAuth}}
    \cup {MkRequest(S_GET, <<>>, q, b, <<>>, a) :
        q \in {<<"1","=","1","&","[","=","1">>},
        b \in {NoBody, Stream(<<"1">>, FALSE)},
        a \in {NoAuth, SomeAuth}}

NoSnapshot == [isNil |-> TRUE]

InitWith(requests, start) ==
    /\ req \in requests
    /\ Cfg \in Configs
    /\ pc = start
    /\ snapshot = NoSnapshot
    /\ statusCalls = <<>>
    /\ printed = <<>>
    /\ logged = <<>>
    /\ textLike = FALSE

\* the handler on one inbound request
Init == InitWith(Requests, "received")
Next == Handle
Spec == Init /\ [][Next]_vars

\* the handler, then further Print calls on its snapshot
InitPrint == InitWith(PrintRequests, "received")
NextPrint == Handle \/ PrintAgain
SpecPrint == InitPrint /\ [][NextPrint]_vars

\* the content classifier on its own
InitClassify ==
    InitWith({MkRequest(S_GET, ct, <<>>, NoBody, <<>>, NoAuth) : ct \in ContentTypes},
             "classify")
NextClassify == Classify
SpecClassify == InitClassify /\ [][NextClassify]_vars

\* ----------------------------------------------------------------- claims
\* the report the handler printed, and what the request carried
Report == printed[1]
ReqContentType == HeaderGet(req.Header, S_ContentType)
ReqBody == req.Body.data
HasLine(out, l) == \E i \in 1..Len(out) : out[i] = l
HasFmt(out, f) == \E i \in 1..Len(out) : out[i].fmt = f
JsonBodyPrinted ==
    /\ pc = "done"
    /\ snapshot.BodyIsString
    /\ Contains(snapshot.ContentType, S_json)
    /\ Len(snapshot.Body.bytes) > 0

\* C1: whatever the request and whatever the decode outcome, the handler
\* writes exactly one status, 202 Accepted, and never 500 or any other.
C1_OnlyAccepted ==
    /\ \A i \in 1..Len(statusCalls) : statusCalls[i] = StatusAccepted
    /\ pc = "done" => statusCalls = <<StatusAccepted>>

\* C1 witness: a request whose body decode failed was answered 202.
C1_Witness ==
    /\ pc = "done"
    /\ snapshot.BodyParseError # NoError
    /\ statusCalls = <<StatusAccepted>>

\* C2: every snapshot populates at most one body representation among the
\* raw byte buffer, BodyFormValues and BodyMultipartFormValues.
C2_AtMostOneRepresentation ==
    pc = "done" =>
        Cardinality({k \in {"raw", "form", "multipart"} :
            \/ k = "raw" /\ Len(snapshot.Body.bytes) > 0
            \/ k = "form" /\ ~snapshot.BodyFormValues.isNil
            \/ k = "multipart" /\ ~snapshot.BodyMultipartFormValues.isNil}) <= 1

\* C3: a well-formed non-empty form body (here: POSTed, with at least one
\* key=value pair) sent as exactly application/x-www-form-urlencoded yields a form-value mapping holding
\* every body key with all its values, and the report has the header
\* "Body (Form values):" and one line per (key, value) pair.
C3_FormDecodedAndPrinted ==
    (/\ pc = "done"
     /\ ReqContentType = ApplicationXWwwFormUrlencoded
     /\ req.Method = S_POST
     /\ ~req.Body.fails
     /\ Contains(ReqBody, <<"=">>)
     /\ ParseQuery(ReqBody).err = NoError
     /\ DOMAIN ParseQuery(ReqBody).values # {})
    => /\ ~snapshot.BodyFormValues.isNil
       /\ \A k \in DOMAIN ParseQuery(ReqBody).values :
            /\ k \in DOMAIN snapshot.BodyFormValues.m
            /\ \A i \in 1..Len(ParseQuery(ReqBody).values[k]) :
                 /\ \E j \in 1..Len(snapshot.BodyFormValues.m[k]) :
                      snapshot.BodyFormValues.m[k][j] = ParseQuery(ReqBody).values[k][i]
                 /\ HasLine(Report, Line("\t%s: %s\n",
                                         <<k, ParseQuery(ReqBody).values[k][i]>>))
       /\ HasFmt(Report, "Body (Form values):\n")

\* C4: a well-formed multipart/form-data body with at least one part
\* populates the snapshot's multipart form, and the report has the header
\* "Body (Multipart form values):", one line per field value and one line
\* per file part with its filename and size.
C4_MultipartDecodedAndPrinted ==
    (/\ pc = "done"
     /\ MediaType(ReqContentType) = MultipartFormData
     /\ Contains(ReqContentType, S_boundaryParam)
     /\ ~req.Body.fails
     /\ ReadForm(ReqBody).err = NoError)
    => /\ ~snapshot.BodyMultipartFormValues.isNil
       /\ HasFmt(Report, "Body (Multipart form values):\n")
       /\ HasLine(Report, Line("\t%s: %s\n", <<S_name, S_foo>>))
       /\ HasLine(Report, Line("\t\t%s (%.2f MB)\n", <<S_fbin, FormatMB(3)>>))

\* C5: a body of N > 0 bytes whose content type is neither text-like, nor
\* URL-encoded form, nor multipart form-data is reported by the fallback
\* line "Body (unknown): length N bytes" (the source spells it "lenght").
C5_UnknownBodyLine ==
    (/\ pc = "done"
     /\ ~isStringContentType(ReqContentType)
     /\ ReqContentType # ApplicationXWwwFormUrlencoded
     /\ MediaType(ReqContentType) # MultipartFormData
     /\ Len(ReqBody) > 0)
    => HasLine(Report, Line("Body (unknown): lenght %d bytes\n", <<Itoa(Len(ReqBody))>>))

\* C6: for a non-empty text-like body whose content type contains "json",
\* the header printed is "Body (valid json):" exactly when the buffer is
\* valid JSON; otherwise it is "Body (invalid json):" followed by the raw
\* bytes; in neither case is "Body:" or a form, multipart or unknown header
\* printed.
C6_JsonHeader ==
    JsonBodyPrinted =>
        /\ HasFmt(Report, "Body (valid json):\n") <=> jsonValid(snapshot.Body.bytes)
        /\ HasFmt(Report, "Body (invalid json):\n") <=> ~jsonValid(snapshot.Body.bytes)
        /\ ~jsonValid(snapshot.Body.bytes) =>
              \E i \in 1..(Len(Report) - 1) :
                 /\ Report[i] = Line("Body (invalid json):\n", <<>>)
                 /\ Report[i + 1] = Line("%s\n", <<snapshot.Body.bytes>>)
        /\ \A f \in {"Body:\n", "Body (Form values):\n", "Body (Multipart form values):\n",
                     "Body (unknown): lenght %d bytes\n"} : ~HasFmt(Report, f)

\* C6 witness: a malformed JSON body was reported under "Body (invalid json):".
C6_Witness ==
    /\ JsonBodyPrinted
    /\ ~jsonValid(snapshot.Body.bytes)
    /\ HasFmt(Report, "Body (invalid json):\n")

\* C7: isStringContentType(ct) is true exactly when ct starts with "text/",
\* contains "json", contains "xml" or equals
\* "application/x-www-form-urlencoded"; it is false for every other string.
C7_Classifier ==
    pc = "classified" =>
        (textLike <=> \/ HasPrefix(ReqContentType, S_text)
                      \/ Contains(ReqContentType, S_json)
                      \/ Contains(ReqContentType, S_xml)
                      \/ ReqContentType = ApplicationXWwwFormUrlencoded)

\* C7 witness: multipart/form-data was classified as not text-like.
C7_Witness ==
    /\ pc = "classified"
    /\ ReqContentType = MultipartFormData
    /\ ~textLike

\* C8: two Print calls on the same unchanged snapshot write the same output.
C8_PrintIdempotent ==
    \A i, j \in 1..Len(printed) : printed[i] = printed[j]

\* C9: when reading a text-like body fails, the snapshot has a nil body
\* buffer and a non-nil BodyParseError, for every text-like content type,
\* and the report is still printed.
C9_ReadFailureRecorded ==
    (/\ pc = "done"
     /\ snapshot.BodyIsString
     /\ req.Body.fails)
    => /\ snapshot.Body.isNil
       /\ snapshot.BodyParseError # NoError
       /\ Len(printed) = 1

\* C10: for a non-empty valid JSON body, with ShouldFormatJson false only
\* the header "Body (valid json):" is printed and no line holds the body;
\* the body is printed (indented) only when ShouldFormatJson is true.
C10_ValidJsonBodyOnlyWhenFormatting ==
    (JsonBodyPrinted /\ jsonValid(snapshot.Body.bytes)) =>
        /\ HasFmt(Report, "Body (valid json):\n")
        /\ HasFmt(Report, "%s\n") <=> Cfg.ShouldFormatJson
        /\ Cfg.ShouldFormatJson =>
              HasLine(Report, Line("%s\n", <<jsonIndent(snapshot.Body.bytes)>>))

\* C10 witness: a valid JSON body was reported with formatting off.
C10_Witness ==
    /\ JsonBodyPrinted
    /\ jsonValid(snapshot.Body.bytes)
    /\ ~Cfg.ShouldFormatJson
    /\ HasFmt(Report, "Body (valid json):\n")

====
